---- MODULE Spec2Model ----
(***************************************************************************)
(* Streaming voice-command pipeline of plisCordAssistant:                  *)
(*   WakeWordDetector (src/core/wakeword/detector.js)                      *)
(*   VADProcessor     (src/core/wakeword/vad.js)                           *)
(*   VoicePipeline    (src/core/pipeline.js)                               *)
(*   FunctionCaller   (src/unnamed/part_003)                               *)
(*                                                                         *)
(* JavaScript runs every handler to its next `await` without interruption. *)
(* One action of this model is one such run: the arrival of a 'data' event,*)
(* the completion (or failure) of one awaited engine call, or one call of  *)
(* the public API by the adapter.                                          *)
(*                                                                         *)
(* Audio samples are identified by their position in the stream the        *)
(* adapter captures; a buffer of samples is a sequence of half-open ranges *)
(* <<lo, hi>> of stream positions, adjacent ranges merged.                 *)
(***************************************************************************)
EXTENDS Integers, Sequences, FiniteSets, TLC

----------------------------------------------------------------------------
(* Bounds of the model *)

\* audio delivered after the first full window, in hops of BatchInterval
MaxHops == 3
\* scores a VADProcessor driven alone is given
MaxScores == 5
\* processAudioChunk invocations suspended at an engine call at one time
MaxTasks == 2
\* onSpeechEnd invocations suspended at an engine call at one time
MaxCycles == 2
\* clock advances of TickMs
MaxTicks == 1
\* calls of VoicePipeline.start by the adapter
MaxStarts == 2
\* processText invocations suspended at an engine call at one time
MaxTexts == 2
\* initialize invocations suspended at a load at one time
MaxInits == 2
\* characters in an output of the intent model
MaxRaw == 3
\* the seconds of audio a speaker who does not pause delivers
RecordingSeconds == 12
\* this.maxCacheSize of TextToSpeech, scaled down from 50
MaxCacheSize == 2
\* generate invocations suspended at the synthesis engines at once
MaxGens == 2
\* syntheses that run to their end
MaxSynth == 4
\* stand-in for negativeCount (8 in the detector's constructor)
NegativeCount == 2
\* stand-in for embeddingFrames (16 in the detector's constructor)
EmbeddingFrames == 2

----------------------------------------------------------------------------
(* Program constants *)

SampleRate == 16000
BatchSamples == (SampleRate * 108) \div 100
BatchInterval == (SampleRate * 12) \div 100
CooldownMs == 2000
\* this.maxRecordingMs of the pipeline
MaxRecordingMs == 10000
\* probabilities are percentages: 0.5 is 50
Threshold == 50
PositiveThreshold == 65
NegativeThreshold == 40

\* Date.now() when the process starts is far beyond cooldownMs
ClockStart == CooldownMs
TickMs == CooldownMs
MaxNow == ClockStart + MaxTicks * TickMs
MaxPos == BatchSamples + MaxHops * BatchInterval
\* one hop more, for the runs that follow a command into a second detection
LongPos == MaxPos + BatchInterval
\* one hop more again, for the end-to-end scenario
ScenarioPos == LongPos + BatchInterval
\* two windows, for the runs that exercise start and stop
ShortPos == BatchSamples + BatchInterval

\* wake-word identifiers: one of WAKE_WORD_MODELS, the default of the
\* driving assistant, which is not, and a name that the table inherits from
\* Object.prototype
WakeWords == {"hey-buddy", "ok-computer", "constructor"}
SupportedWakeWords == {"hey-buddy"}

Sources == {"A", "B"}
NoSource == "none"

\* sizes of the chunks the audio source delivers
ChunkSizes == {BatchInterval \div 2, BatchInterval, BatchSamples}
\* scores of the voice-activity engine: silence, dead zone, speech
VadScores == {10, 50, 90}
\* scores on both sides of the two thresholds
EdgeScores == {NegativeThreshold - 1, NegativeThreshold,
               PositiveThreshold - 1, PositiveThreshold}
\* probabilities of the wake-word classifier
WakeProbs == {Threshold - 1, Threshold}

----------------------------------------------------------------------------
(* Float32Array values as range lists *)

\* recordingBuffer = null
Null == << <<-1, -1>> >>
\* no 'transcript' event yet
NoTranscript == <<"none">>

----------------------------------------------------------------------------
(* FunctionCaller.parseResponse on strings as character sequences *)

\* the characters of an output of the intent model: the braces, a letter,
\* white space
Chars == {"{", "}", "a", " "}
RawOutputs == UNION {[1..n -> Chars] : n \in 0..MaxRaw}

\* String.prototype.trim
RECURSIVE TrimStart(_)
TrimStart(str) ==
    IF str # <<>> /\ Head(str) = " " THEN TrimStart(Tail(str)) ELSE str
RECURSIVE TrimEnd(_)
TrimEnd(str) ==
    IF str # <<>> /\ str[Len(str)] = " "
    THEN TrimEnd(SubSeq(str, 1, Len(str) - 1)) ELSE str
Trim(str) == TrimEnd(TrimStart(str))

\* responseText.match(/\{[\s\S]*\}/): from the first opening brace to the
\* last closing brace, <<>> for no match
JsonMatch(str) ==
    LET opens == {i \in DOMAIN str : str[i] = "{"}
        closes == {i \in DOMAIN str : str[i] = "}"}
    IN IF \E i \in opens, j \in closes : i < j
       THEN SubSeq(str, CHOOSE i \in opens : \A k \in opens : i <= k,
                        CHOOSE j \in closes : \A k \in closes : k <= j)
       ELSE <<>>

\* whether JSON.parse accepts a text that starts with { and ends with }:
\* over Chars the one object is the empty one, white space allowed inside
IsJsonObject(txt) ==
    /\ Len(txt) >= 2
    /\ txt[1] = "{"
    /\ txt[Len(txt)] = "}"
    /\ \A i \in 2..(Len(txt) - 1) : txt[i] = " "

\* a property that the parsed object does not have
Undefined == <<"undefined">>
\* the fallback object of parseResponse
PlainResponse(str) ==
    [function |-> "null", parameters |-> "{}", response |-> Trim(str)]
\* JSON.parse("{}")
EmptyObject ==
    [function |-> "undefined", parameters |-> "undefined",
     response |-> Undefined]

\* variant: the fallback response is the output as it is
ParseResponseUntrimmed(str) ==
    IF JsonMatch(str) # <<>> /\ IsJsonObject(JsonMatch(str))
    THEN EmptyObject
    ELSE [function |-> "null", parameters |-> "{}", response |-> str]

ParseResponse(str) ==
    IF JsonMatch(str) # <<>> /\ IsJsonObject(JsonMatch(str))
    THEN EmptyObject
    ELSE PlainResponse(str)

\* no output parsed yet
NoParse == [raw |-> Undefined, result |-> EmptyObject]

\* TOOLS of tools/definitions.js, by name: play_youtube, media_control and
\* search_web stand for the seven entries with handler: null, get_time is
\* the entry with a handler of its own
ToolNames == {"play_youtube", "media_control", "search_web", "get_time"}
DefinedTools ==
    [name \in ToolNames |->
        [schema |-> name,
         handler |-> IF name = "get_time" THEN "builtin" ELSE "null"]]
\* the names an adapter may pass handlers for: one is no tool of TOOLS
HandlerNames == ToolNames \cup {"open_door"}
\* the arguments of createTools; handlers[name] is absent, null, or the
\* adapter's function
HandlerMaps == [HandlerNames -> {"undefined", "null", "adapter"}]
\* voice ids of VOICE_MAP and texts to speak, as character sequences
Voices == {<<"M">>, <<"F">>}
Texts == {<<"a">>, <<":", "a">>}
\* `${voiceId}:${text}`
CacheKey(voiceId, text) == voiceId \o <<":">> \o text
\* no generate call has returned yet
NoGen == [key |-> <<>>, result |-> 0, hit |-> FALSE]
\* createTools was not called yet
NoHandlers == <<"none">>
NoTools == <<"none">>

RECURSIVE RLen(_)
RLen(b) == IF b = <<>> THEN 0 ELSE (Head(b)[2] - Head(b)[1]) + RLen(Tail(b))

\* b followed by the samples lo..hi-1
RPush(b, lo, hi) ==
    IF lo >= hi THEN b
    ELSE IF b # <<>> /\ b[Len(b)][2] = lo
         THEN [b EXCEPT ![Len(b)] = <<b[Len(b)][1], hi>>]
         ELSE Append(b, <<lo, hi>>)

RECURSIVE RCat(_, _)
RCat(a, b) == IF b = <<>> THEN a
              ELSE RCat(RPush(a, Head(b)[1], Head(b)[2]), Tail(b))

\* Float32Array.prototype.slice(0, n)
RECURSIVE SliceTo(_, _)
SliceTo(b, n) ==
    IF n <= 0 \/ b = <<>> THEN <<>>
    ELSE LET l == Head(b)[2] - Head(b)[1] IN
         IF l <= n THEN <<Head(b)>> \o SliceTo(Tail(b), n - l)
         ELSE << <<Head(b)[1], Head(b)[1] + n>> >>

\* Float32Array.prototype.slice(n)
RECURSIVE SliceFrom(_, _)
SliceFrom(b, n) ==
    IF n <= 0 \/ b = <<>> THEN b
    ELSE LET l == Head(b)[2] - Head(b)[1] IN
         IF l <= n THEN SliceFrom(Tail(b), n - l)
         ELSE << <<Head(b)[1] + n, Head(b)[2]>> >> \o Tail(b)

----------------------------------------------------------------------------
VARIABLES
    \* VoicePipeline
    state, isInitialized, isPaused, cycles, hasErrorListener,
    \* WakeWordDetector
    isRunning, detIsPaused, isRecording, lastWakeWordTime,
    audioBuffer, recordingBuffer, embeddingBuffer, audioSource, tasks,
    \* VADProcessor
    isSpeaking, negativeSamples,
    \* environment: audio sources, clock, adapter
    listeners, pos, now, starts,
    \* observation: the samples appended to audioBuffer so far, the windows
    \* handed to processBatch so far, the number of speech segments VAD has
    \* opened, and for every window the classifier found qualifying
    \* (probability >= threshold) the time and whether 'detected' was emitted
    accepted, windows, speechSegment, detections,
    \* the registered tool map (the names in it) and the processText
    \* invocations suspended at an engine call
    tools, texts,
    \* the names that are keys of FunctionCaller.toolSchemas, from which
    \* buildSystemPrompt lists the tools
    toolSchemas,
    \* the recurrent state of the voice-activity engine held by the
    \* VADProcessor: 0 for the zero tensors, else the number of the window
    \* whose engine call returned it
    hidden,
    \* observation of the recording session: what the open session should
    \* hold (the window of the detection that opened it, then every chunk
    \* the detector took since), and the utterances onSpeechEnd handed to
    \* transcription
    sessionAudio, utterances,
    \* observation of a VADProcessor driven alone: the scores it was given
    \* and what process returned for each
    vadLog,
    \* the configured wake-word identifier, the initialize invocations
    \* suspended at a load, and isInitialized of the detector the pipeline
    \* holds
    wakeWord, inits, detInitialized,
    \* the number of times the pipeline's handlers of 'detected' and
    \* 'speechEnd' are registered on the detector the pipeline holds
    detHandlers,
    \* observation: the payload of the last 'stateChange' event and of the
    \* last 'transcript' event the pipeline emitted
    lastStateChange, lastTranscript,
    \* observation: the last output of the intent model that parseResponse
    \* was given, and what it returned
    parsed,
    \* observation: the log holds a 'Batch processing error' line written
    \* while a recording session was open
    sessionError,
    \* observation: the last of the events 'speechStart' and 'speechEnd'
    \* the detector emitted
    lastEdge,
    \* observation: the window whose wake-word evaluation emitted the last
    \* 'detected' event
    lastDetected,
    \* the tool registry of tools/definitions.js, and observation of the
    \* last call createTools(handlers): its argument and what it returned
    TOOLS, handlersArg, created,
    \* TextToSpeech: audioCache as its entries in insertion order, the
    \* generate invocations suspended at the synthesis engines, the number
    \* of syntheses that ran to their end, and observation of what the
    \* last generate call that returned gave back
    audioCache, gens, synthCount, lastGen

pipeVars == <<state, lastStateChange, isInitialized, isPaused, cycles,
             hasErrorListener>>
detVars == <<isRunning, detIsPaused, isRecording, lastWakeWordTime,
             audioBuffer, recordingBuffer, embeddingBuffer, audioSource, tasks>>
vadVars == <<isSpeaking, negativeSamples>>
envVars == <<listeners, pos, now, starts>>
obsVars == <<accepted, windows, speechSegment, detections, vadLog>>
callVars == <<tools, texts, toolSchemas>>
ttsVars == <<audioCache, gens, synthCount, lastGen>>
libVars == <<TOOLS, handlersArg, created, ttsVars>>
sessionVars == <<sessionAudio, utterances>>
initVars == <<wakeWord, inits, detInitialized, detHandlers>>
vars == <<pipeVars, detVars, vadVars, envVars, obsVars, callVars, hidden,
          sessionVars, initVars, lastTranscript, parsed, sessionError, lastEdge, lastDetected, libVars>>

\* this.state = s; this.emit('stateChange', this.state)
SetState(s) ==
    /\ state' = s
    /\ lastStateChange' = s

----------------------------------------------------------------------------
(* VADProcessor.process: the new VAD state and the edges, from the state    *)
(* before the call and the probability the engine returned                  *)

\* variant: the start comparison is strict
VADProcessStrictStart(speaking, negatives, probability) ==
    LET nowSpeaking ==
            IF probability > PositiveThreshold THEN TRUE
            ELSE IF probability < NegativeThreshold
                    /\ negatives + 1 >= NegativeCount THEN FALSE
            ELSE speaking
        nowNegatives ==
            IF probability > PositiveThreshold THEN 0
            ELSE IF probability < NegativeThreshold THEN negatives + 1
            ELSE negatives
    IN [isSpeaking |-> nowSpeaking,
        negativeSamples |-> nowNegatives,
        justStarted |-> nowSpeaking /\ ~speaking,
        justEnded |-> ~nowSpeaking /\ speaking]

\* variant: a score in the dead zone restarts the count of negative windows
VADProcessResetInDeadZone(speaking, negatives, probability) ==
    LET nowSpeaking ==
            IF probability >= PositiveThreshold THEN TRUE
            ELSE IF probability < NegativeThreshold
                    /\ negatives + 1 >= NegativeCount THEN FALSE
            ELSE speaking
        nowNegatives ==
            IF probability < NegativeThreshold THEN negatives + 1 ELSE 0
    IN [isSpeaking |-> nowSpeaking,
        negativeSamples |-> nowNegatives,
        justStarted |-> nowSpeaking /\ ~speaking,
        justEnded |-> ~nowSpeaking /\ speaking]

\* variant: the start edge is reported on every window at or above the
\* positive threshold
VADProcessStartRepeats(speaking, negatives, probability) ==
    LET nowSpeaking ==
            IF probability >= PositiveThreshold THEN TRUE
            ELSE IF probability < NegativeThreshold
                    /\ negatives + 1 >= NegativeCount THEN FALSE
            ELSE speaking
        nowNegatives ==
            IF probability >= PositiveThreshold THEN 0
            ELSE IF probability < NegativeThreshold THEN negatives + 1
            ELSE negatives
    IN [isSpeaking |-> nowSpeaking,
        negativeSamples |-> nowNegatives,
        justStarted |-> probability >= PositiveThreshold,
        justEnded |-> ~nowSpeaking /\ speaking]

VADProcess(speaking, negatives, probability) ==
    LET wasSpseaking == speaking
        nowSpeaking ==
            IF probability >= PositiveThreshold THEN TRUE
            ELSE IF probability < NegativeThreshold
                    /\ negatives + 1 >= NegativeCount THEN FALSE
            ELSE speaking
        nowNegatives ==
            IF probability >= PositiveThreshold THEN 0
            ELSE IF probability < NegativeThreshold THEN negatives + 1
            ELSE negatives
    IN [isSpeaking |-> nowSpeaking,
        negativeSamples |-> nowNegatives,
        justStarted |-> nowSpeaking /\ ~wasSpseaking,
        justEnded |-> ~nowSpeaking /\ wasSpseaking]

----------------------------------------------------------------------------
(* Suspended invocations *)

\* a processAudioChunk invocation suspended inside processBatch is a record
\* of the engine call it awaits ("vad", "spectrogram", "embedding",
\* "wakeword"), the window (`audio`) processBatch was given, and the speech
\* segment VAD placed the window in

\* an onSpeechEnd invocation past its guard: the call it awaits ("stt",
\* "intent", "tool", "tts"), the utterance it was given, the result object
\* of FunctionCaller.process, what the tool handler threw, and the tool
\* names registered when the command started (`toolsAtStart`, observation)
NoResult == [function |-> "null", response |-> "none", executed |-> "unset"]
IdleCycle == [pc |-> "idle", audio |-> Null, result |-> NoResult,
              toolThrew |-> "no", toolsAtStart |-> {}]

\* the suspended invocations are kept in the order they were made; one
\* that returns leaves the list
Remove(seq, i) == SubSeq(seq, 1, i - 1) \o SubSeq(seq, i + 1, Len(seq))

----------------------------------------------------------------------------
Init ==
    /\ state = "idle"
    /\ isInitialized = FALSE
    /\ isPaused = FALSE
    /\ cycles = <<>>
    /\ hasErrorListener \in BOOLEAN
    /\ isRunning = FALSE
    /\ detIsPaused = FALSE
    /\ isRecording = FALSE
    /\ lastWakeWordTime = 0
    /\ audioBuffer = <<>>
    /\ recordingBuffer = Null
    /\ embeddingBuffer = <<>>
    /\ audioSource = NoSource
    /\ tasks = <<>>
    /\ isSpeaking = FALSE
    /\ negativeSamples = 0
    /\ listeners = [s \in Sources |-> 0]
    /\ pos = 0
    /\ now = ClockStart
    /\ starts = 0
    /\ accepted = <<>>
    /\ windows = <<>>
    /\ speechSegment = 0
    /\ detections = <<>>
    /\ vadLog = <<>>
    /\ tools = {"known"}
    /\ toolSchemas = {}
    /\ texts = <<>>
    /\ hidden = 0
    /\ sessionAudio = Null
    /\ utterances = <<>>
    /\ wakeWord \in WakeWords
    /\ inits = <<>>
    /\ detInitialized = FALSE
    /\ detHandlers = 0
    /\ lastStateChange = "idle"
    /\ lastTranscript = NoTranscript
    /\ parsed = NoParse
    /\ sessionError = FALSE
    /\ lastEdge = "none"
    /\ lastDetected = Null
    /\ TOOLS = DefinedTools
    /\ handlersArg = NoHandlers
    /\ created = NoTools
    /\ audioCache = <<>>
    /\ gens = <<>>
    /\ synthCount = 0
    /\ lastGen = NoGen

----------------------------------------------------------------------------
(* WakeWordDetector.processAudioChunk *)

\* while (this.audioBuffer.length >= this.batchSamples)
HasWindow(buf) == RLen(buf) >= BatchSamples
\* const batch = this.audioBuffer.slice(0, this.batchSamples)
Batch(buf) == SliceTo(buf, BatchSamples)
\* variant: the buffer advances by a whole window
AdvanceByBatch(buf) == SliceFrom(buf, BatchSamples)
\* this.audioBuffer = this.audioBuffer.slice(this.batchInterval)
Advance(buf) == SliceFrom(buf, BatchInterval)

\* the number of hops into the stream at which a window starts
WindowIndex(audio) == audio[1][1] \div BatchInterval

\* processBatch(batch) is entered and suspends in runVAD, which feeds the
\* engine the recurrent state h that vad.getState() returns
\* (the field is cleared when the call has returned)
NewTask(buf, h) == [pc |-> "vad", audio |-> Batch(buf), seg |-> 0, h |-> h]

\* the loop of processAudioChunk as invocation t of tks reaches its test
\* with audioBuffer = buf and the VADProcessor holding recurrent state h:
\* the next window is cut and processBatch is entered, or the invocation
\* returns
LoopHead(buf, tks, wins, t, h) ==
    IF HasWindow(buf)
    THEN [audioBuffer |-> Advance(buf),
          tasks |-> [tks EXCEPT ![t] = NewTask(buf, h)],
          windows |-> Append(wins, Batch(buf))]
    ELSE [audioBuffer |-> buf, tasks |-> Remove(tks, t), windows |-> wins]

\* one call processAudioChunk(chunk), chunk = samples lo..hi-1, up to its
\* first await; d holds the fields the call reads and writes, and d.ok
\* turns FALSE when the call would need more suspended invocations than
\* MaxTasks
ProcessAudioChunk(d, lo, hi) ==
    IF ~isRunning \/ detIsPaused THEN d
    ELSE LET buf == RPush(d.audioBuffer, lo, hi)
             rec == IF isRecording
                    THEN RPush(IF d.recordingBuffer = Null THEN <<>>
                               ELSE d.recordingBuffer, lo, hi)
                    ELSE d.recordingBuffer
             ses == IF isRecording
                    THEN RPush(IF d.sessionAudio = Null THEN <<>>
                               ELSE d.sessionAudio, lo, hi)
                    ELSE d.sessionAudio
             acc == RCat(d.accepted, << <<lo, hi>> >>)
         IN IF ~HasWindow(buf)
            THEN [d EXCEPT !.audioBuffer = buf, !.recordingBuffer = rec,
                           !.sessionAudio = ses, !.accepted = acc]
            ELSE IF Len(d.tasks) >= MaxTasks
            THEN [d EXCEPT !.ok = FALSE]
            ELSE [d EXCEPT !.audioBuffer = Advance(buf),
                           !.recordingBuffer = rec,
                           !.sessionAudio = ses,
                           !.accepted = acc,
                           !.tasks = Append(d.tasks, NewTask(buf, hidden)),
                           !.windows = Append(d.windows, Batch(buf))]

\* EventEmitter.emit('data', chunk): every listener is called in turn
RECURSIVE EmitData(_, _, _, _)
EmitData(d, lo, hi, k) ==
    IF k = 0 THEN d ELSE EmitData(ProcessAudioChunk(d, lo, hi), lo, hi, k - 1)

\* the audio source src delivers the next n samples of the stream, which
\* is at most limit samples long
DataEvent(src, n, limit) ==
    /\ listeners[src] > 0
    /\ pos + n <= limit
    /\ LET d == EmitData([audioBuffer |-> audioBuffer,
                          recordingBuffer |-> recordingBuffer,
                          sessionAudio |-> sessionAudio,
                          tasks |-> tasks, accepted |-> accepted,
                          windows |-> windows, ok |-> TRUE],
                         pos, pos + n, listeners[src])
       IN /\ d.ok
          /\ audioBuffer' = d.audioBuffer
          /\ recordingBuffer' = d.recordingBuffer
          /\ sessionAudio' = d.sessionAudio
          /\ tasks' = d.tasks
          /\ accepted' = d.accepted
          /\ windows' = d.windows
    /\ pos' = pos + n
    /\ UNCHANGED <<pipeVars, vadVars, speechSegment, detections, vadLog>>
    /\ UNCHANGED <<isRunning, detIsPaused, isRecording, lastWakeWordTime,
                   embeddingBuffer, audioSource, listeners, now, starts>>
    /\ UNCHANGED <<callVars, initVars, lastTranscript, parsed, sessionError, lastEdge, lastDetected, libVars, hidden, utterances>>

----------------------------------------------------------------------------
(* VoicePipeline.pause, VoicePipeline.resume with WakeWordDetector.pause,   *)
(* WakeWordDetector.resume                                                  *)

Pause ==
    /\ isPaused' = TRUE
    /\ detIsPaused' = TRUE

Resume ==
    /\ isPaused' = FALSE
    /\ detIsPaused' = FALSE
    /\ isRecording' = FALSE
    /\ recordingBuffer' = Null
    /\ sessionAudio' = Null
    /\ SetState("listening")

\* variant: onSpeechEnd does not test the state
OnSpeechEndUnguarded == TRUE
\* variant: onSpeechEnd returns only when the pipeline is idle
OnSpeechEndGuardNotIdle == state # "idle"
\* the guard at the top of onSpeechEnd
OnSpeechEndGuard == state = "recording"

\* variant: the time of the last detection is not compared with cooldownMs
CooldownIgnored(clock, last) == clock - last >= 0
\* if (now - this.lastWakeWordTime >= this.cooldownMs)
CooldownElapsed(clock, last) == clock - last >= CooldownMs

----------------------------------------------------------------------------
(* WakeWordDetector.processBatch, one action per awaited engine call *)

\* vadSession.run returns probability p to task t: vad.process, the 'vad',
\* 'speechStart' and 'speechEnd' events (the latter runs onSpeechEnd up to
\* its await of stt.transcribe), then runSpectrogram or the end of the batch
VadDone(t, p) ==
    /\ tasks[t].pc = "vad"
    /\ LET r == VADProcess(isSpeaking, negativeSamples, p)
           returned == WindowIndex(tasks[t].audio) + 1
           seg == IF r.justStarted THEN speechSegment + 1 ELSE speechSegment
           passes == r.justEnded /\ OnSpeechEndGuard
           h == IF r.isSpeaking
                THEN [audioBuffer |-> audioBuffer,
                      tasks |-> [tasks EXCEPT ![t].pc = "spectrogram",
                                              ![t].seg = seg,
                                              ![t].h = 0],
                      windows |-> windows]
                ELSE LoopHead(audioBuffer, tasks, windows, t, returned)
       IN /\ isSpeaking' = r.isSpeaking
          /\ negativeSamples' = r.negativeSamples
          /\ hidden' = returned
          /\ speechSegment' = seg
          /\ passes => Len(cycles) < MaxCycles
          /\ IF passes
             THEN /\ Pause
                  /\ SetState("transcribing")
                  /\ cycles' = Append(cycles,
                                   [IdleCycle EXCEPT !.pc = "stt",
                                                     !.toolsAtStart = tools,
                                                     !.audio = recordingBuffer])
             ELSE UNCHANGED <<isPaused, detIsPaused, state, lastStateChange,
                              cycles>>
          /\ recordingBuffer' = IF r.justEnded THEN Null ELSE recordingBuffer
          /\ sessionAudio' = IF r.justEnded THEN Null ELSE sessionAudio
          /\ utterances' = IF passes THEN Append(utterances, recordingBuffer)
                           ELSE utterances
          /\ audioBuffer' = h.audioBuffer
          /\ tasks' = h.tasks
          /\ windows' = h.windows
          /\ lastEdge' = IF r.justEnded THEN "speechEnd"
                         ELSE IF r.justStarted THEN "speechStart"
                         ELSE lastEdge
    /\ UNCHANGED <<isInitialized, hasErrorListener, isRunning, isRecording,
                   lastWakeWordTime, embeddingBuffer, audioSource,
                   envVars, accepted, detections, vadLog>>
    /\ UNCHANGED <<callVars, initVars, lastTranscript, parsed, sessionError,
                   lastDetected, libVars>>

\* spectrogramSession.run returns to task t: runEmbedding is called
SpectrogramDone(t) ==
    /\ tasks[t].pc = "spectrogram"
    /\ tasks' = [tasks EXCEPT ![t].pc = "embedding"]
    /\ UNCHANGED <<pipeVars, vadVars, envVars, obsVars>>
    /\ UNCHANGED <<isRunning, detIsPaused, isRecording, lastWakeWordTime,
                   audioBuffer, recordingBuffer, embeddingBuffer, audioSource>>
    /\ UNCHANGED <<callVars, initVars, lastTranscript, parsed, sessionError, lastEdge, lastDetected, libVars, hidden, sessionVars>>

\* an embedding: the speech segment VAD placed its window in, and its
\* number in the order the embeddings were produced (the buffer is never
\* emptied, so its newest entry tells how many were produced before)
Embedding(buf, task) ==
    [seg |-> task.seg,
     n |-> IF buf = <<>> THEN 1 ELSE buf[Len(buf)].n + 1]

\* variant: at capacity the new embedding is dropped
PushEmbeddingDropsNewest(buf, e) ==
    IF Len(buf) >= EmbeddingFrames THEN buf ELSE Append(buf, e)

\* embeddingBuffer.push(embedding) followed by the shift at capacity
PushEmbedding(buf, e) ==
    LET pushed == Append(buf, e)
    IN IF Len(pushed) > EmbeddingFrames THEN Tail(pushed) ELSE pushed

\* embeddingSession.run returns to task t: the embedding is buffered and,
\* with a full buffer, checkWakeWord is called
EmbeddingDone(t) ==
    /\ tasks[t].pc = "embedding"
    /\ LET buf == PushEmbedding(embeddingBuffer,
                                Embedding(embeddingBuffer, tasks[t]))
           h == IF Len(buf) >= EmbeddingFrames
                THEN [audioBuffer |-> audioBuffer,
                      tasks |-> [tasks EXCEPT ![t].pc = "wakeword"],
                      windows |-> windows]
                ELSE LoopHead(audioBuffer, tasks, windows, t, hidden)
       IN /\ embeddingBuffer' = buf
          /\ audioBuffer' = h.audioBuffer
          /\ tasks' = h.tasks
          /\ windows' = h.windows
    /\ UNCHANGED <<pipeVars, vadVars, envVars>>
    /\ UNCHANGED <<isRunning, detIsPaused, isRecording, lastWakeWordTime,
                   recordingBuffer, audioSource, accepted, speechSegment,
                   detections, vadLog>>
    /\ UNCHANGED <<callVars, initVars, lastTranscript, parsed, sessionError, lastEdge, lastDetected, libVars, hidden, sessionVars>>

\* wakeWordSession.run returns probability p to task t: the cooldown check,
\* the 'detected' event (onWakeWordDetected), then the end of the batch
WakeWordDone(t, p) ==
    /\ tasks[t].pc = "wakeword"
    /\ LET detected == p >= Threshold
           fires == detected /\ CooldownElapsed(now, lastWakeWordTime)
           h == LoopHead(audioBuffer, tasks, windows, t, hidden)
       IN /\ IF fires
             THEN /\ lastWakeWordTime' = now
                  /\ isRecording' = TRUE
                  /\ recordingBuffer' = tasks[t].audio
                  /\ sessionAudio' = IF isRecording THEN sessionAudio
                                     ELSE tasks[t].audio
                  /\ lastDetected' = tasks[t].audio
                  /\ SetState("recording")
             ELSE UNCHANGED <<lastWakeWordTime, isRecording, recordingBuffer,
                              sessionAudio, state, lastStateChange,
                              lastDetected>>
          /\ detections' = IF detected
                           THEN Append(detections, [time |-> now, fired |-> fires])
                           ELSE detections
          /\ audioBuffer' = h.audioBuffer
          /\ tasks' = h.tasks
          /\ windows' = h.windows
    /\ UNCHANGED <<isInitialized, isPaused, cycles, hasErrorListener,
                   isRunning, detIsPaused, embeddingBuffer, audioSource,
                   vadVars, envVars, accepted, speechSegment, vadLog>>
    /\ UNCHANGED <<callVars, initVars, lastTranscript, parsed, sessionError, lastEdge, libVars, hidden, utterances>>

\* variant: the exception leaves processBatch and ends the invocation of
\* processAudioChunk
EngineFailEscapes(t) ==
    /\ tasks' = Remove(tasks, t)
    /\ sessionError' = (sessionError \/ isRecording)
    /\ UNCHANGED <<pipeVars, vadVars, envVars, audioBuffer, windows>>
    /\ UNCHANGED <<isRunning, detIsPaused, isRecording, lastWakeWordTime,
                   recordingBuffer, embeddingBuffer, audioSource, accepted,
                   speechSegment, detections, vadLog>>
    /\ UNCHANGED <<callVars, initVars, lastTranscript, parsed, lastEdge, lastDetected, libVars, hidden, sessionVars>>
\* the engine call task t awaits throws: the catch of processBatch logs it
EngineFail(t) ==
    /\ LET h == LoopHead(audioBuffer, tasks, windows, t, hidden)
       IN /\ audioBuffer' = h.audioBuffer
          /\ tasks' = h.tasks
          /\ windows' = h.windows
    /\ sessionError' = (sessionError \/ isRecording)
    /\ UNCHANGED <<pipeVars, vadVars, envVars>>
    /\ UNCHANGED <<isRunning, detIsPaused, isRecording, lastWakeWordTime,
                   recordingBuffer, embeddingBuffer, audioSource, accepted,
                   speechSegment, detections, vadLog>>
    /\ UNCHANGED <<callVars, initVars, lastTranscript, parsed, lastEdge, lastDetected, libVars, hidden, sessionVars>>

----------------------------------------------------------------------------
(* VoicePipeline.onSpeechEnd after its guard, one action per awaited call,  *)
(* with FunctionCaller.process inlined at its two awaits                    *)

\* transcripts of the STT engine, as character sequences
Transcripts == {<<>>, <<" ", " ">>, <<"p", "l", "a", "y">>}
\* variant: the transcript is not trimmed
IsEmptyUntrimmed(tr) == tr = <<>>
\* !transcript || transcript.trim().length === 0
IsEmptyTranscript(tr) == \A i \in 1..Len(tr) : tr[i] = " "

\* what the intent engine's parsed output names: no function, a tool of
\* the map the pipeline was constructed with, a name that map does not hold
IntentFunctions == {"null", "known", "unknown"}
\* the response text of a result: none, the model's, the tool's, the
\* apology of the tool catch, the fallback of the outer catch of process
ModelResponses == {"none", "model"}
ToolResponses == {"none", "tool"}
\* what a failing tool handler throws: an Error, or null/undefined
ToolThrows == {"error", "null"}

\* catch (error) { this.emit('error', error); } this.resume();
\* EventEmitter.emit('error', e) throws e when no listener is registered
HandleError(c) ==
    /\ cycles' = Remove(cycles, c)
    /\ IF hasErrorListener
       THEN Resume
       ELSE UNCHANGED <<isPaused, detIsPaused, isRecording,
                        recordingBuffer, sessionAudio, state, lastStateChange>>

\* variant: the response is spoken whether or not the result carries one
AfterProcessAlwaysSpeaks(c, result) ==
    /\ SetState("speaking")
    /\ cycles' = [cycles EXCEPT ![c].pc = "tts", ![c].result = result]
    /\ UNCHANGED <<isPaused, detIsPaused, isRecording, recordingBuffer,
                   sessionAudio>>

\* functionCaller.process has returned result: the 'intent' event, then
\* speaking and tts.speak if the result carries a response, else resume()
AfterProcess(c, result) ==
    IF result.response # "none"
    THEN /\ SetState("speaking")
         /\ cycles' = [cycles EXCEPT ![c].pc = "tts", ![c].result = result]
         /\ UNCHANGED <<isPaused, detIsPaused, isRecording, recordingBuffer,
                   sessionAudio>>
    ELSE /\ Resume
         /\ cycles' = Remove(cycles, c)

cycleFrame == <<isInitialized, hasErrorListener, isRunning, lastWakeWordTime,
                audioBuffer, embeddingBuffer, audioSource, tasks,
                vadVars, envVars, obsVars>>

\* stt.transcribe returns transcript tr
SttDone(c, tr) ==
    /\ cycles[c].pc = "stt"
    /\ IF IsEmptyTranscript(tr)
       THEN /\ Resume
            /\ cycles' = Remove(cycles, c)
       ELSE /\ SetState("processing")
            /\ cycles' = [cycles EXCEPT ![c].pc = "intent"]
            /\ UNCHANGED <<isPaused, detIsPaused, isRecording, recordingBuffer,
                   sessionAudio>>
    /\ lastTranscript' = tr
    /\ UNCHANGED <<parsed, sessionError, lastEdge, lastDetected, libVars>>
    /\ UNCHANGED cycleFrame
    /\ UNCHANGED <<callVars, initVars, hidden, utterances>>

\* stt.transcribe throws
SttFail(c) ==
    /\ cycles[c].pc = "stt"
    /\ HandleError(c)
    /\ UNCHANGED cycleFrame
    /\ UNCHANGED <<callVars, initVars, lastTranscript, parsed, sessionError, lastEdge, lastDetected, libVars, hidden, utterances>>

\* model.generate returns and parseResponse yields function fn, response resp
IntentDone(c, fn, resp) ==
    /\ cycles[c].pc = "intent"
    /\ LET result == [function |-> fn, response |-> resp, executed |-> "unset"]
       IN IF fn \in tools
          THEN /\ cycles' = [cycles EXCEPT ![c].pc = "tool", ![c].result = result]
               /\ UNCHANGED <<isPaused, detIsPaused, isRecording,
                              recordingBuffer, sessionAudio, state, lastStateChange>>
          ELSE AfterProcess(c, result)
    /\ UNCHANGED cycleFrame
    /\ UNCHANGED <<callVars, initVars, lastTranscript, parsed, sessionError, lastEdge, lastDetected, libVars, hidden, utterances>>

\* tokenizer or model.generate throws: the outer catch of process
IntentFail(c) ==
    /\ cycles[c].pc = "intent"
    /\ AfterProcess(c, [function |-> "null", response |-> "fallback",
                        executed |-> "unset"])
    /\ UNCHANGED cycleFrame
    /\ UNCHANGED <<callVars, initVars, lastTranscript, parsed, sessionError, lastEdge, lastDetected, libVars, hidden, utterances>>

\* tool.handler returns, with or without a response of its own
ToolDone(c, resp) ==
    /\ cycles[c].pc = "tool"
    /\ AfterProcess(c, [cycles[c].result EXCEPT
                           !.executed = "true",
                           !.response = IF resp # "none" THEN resp ELSE @])
    /\ UNCHANGED cycleFrame
    /\ UNCHANGED <<callVars, initVars, lastTranscript, parsed, sessionError, lastEdge, lastDetected, libVars, hidden, utterances>>

\* tool.handler throws thrown: the inner catch reads error.message, which
\* is itself a TypeError for null/undefined and lands in the outer catch
ToolFail(c, thrown) ==
    /\ cycles[c].pc = "tool"
    /\ LET result ==
             IF thrown = "error"
             THEN [cycles[c].result EXCEPT !.executed = "false",
                                           !.response = "apology"]
             ELSE [function |-> "null", response |-> "fallback",
                   executed |-> "unset"]
       IN /\ SetState("speaking")
          /\ cycles' = [cycles EXCEPT ![c].pc = "tts", ![c].result = result,
                                      ![c].toolThrew = thrown]
    /\ UNCHANGED <<isPaused, detIsPaused, isRecording, recordingBuffer,
                   sessionAudio>>
    /\ UNCHANGED cycleFrame
    /\ UNCHANGED <<callVars, initVars, lastTranscript, parsed, sessionError, lastEdge, lastDetected, libVars, hidden, utterances>>

\* tts.speak returns
TtsDone(c) ==
    /\ cycles[c].pc = "tts"
    /\ Resume
    /\ cycles' = Remove(cycles, c)
    /\ UNCHANGED cycleFrame
    /\ UNCHANGED <<callVars, initVars, lastTranscript, parsed, sessionError, lastEdge, lastDetected, libVars, hidden, utterances>>

\* tts.speak throws
TtsFail(c) ==
    /\ cycles[c].pc = "tts"
    /\ HandleError(c)
    /\ UNCHANGED cycleFrame
    /\ UNCHANGED <<callVars, initVars, lastTranscript, parsed, sessionError, lastEdge, lastDetected, libVars, hidden, utterances>>

----------------------------------------------------------------------------
(* VoicePipeline.processText, one action per awaited call, with             *)
(* FunctionCaller.process inlined at its two awaits                         *)

\* a processText invocation: the call it awaits ("intent", "tool", "tts"),
\* the result object of FunctionCaller.process and the response the tool
\* handler returned
NewText == [pc |-> "intent", result |-> NoResult, toolResponse |-> "none"]

textFrame == <<pipeVars, detVars, vadVars, envVars, obsVars, tools, toolSchemas,
                   hidden,
               sessionVars, initVars, lastTranscript, parsed, sessionError, lastEdge, lastDetected, libVars>>

\* functionCaller.process has returned result to invocation i: tts.speak
\* if the result carries a response, else processText returns
AfterTextProcess(i, result, toolResp) ==
    IF result.response # "none"
    THEN texts' = [texts EXCEPT ![i].pc = "tts", ![i].result = result,
                                ![i].toolResponse = toolResp]
    ELSE texts' = Remove(texts, i)

\* processText(text) on an initialized pipeline, up to model.generate
ProcessText ==
    /\ isInitialized
    /\ Len(texts) < MaxTexts
    /\ texts' = Append(texts, NewText)
    /\ UNCHANGED textFrame

\* model.generate returns and parseResponse yields function fn, response resp
TextIntentDone(i, fn, resp) ==
    /\ texts[i].pc = "intent"
    /\ LET result == [function |-> fn, response |-> resp, executed |-> "unset"]
       IN IF fn \in tools
          THEN texts' = [texts EXCEPT ![i].pc = "tool", ![i].result = result]
          ELSE AfterTextProcess(i, result, "none")
    /\ UNCHANGED textFrame

\* model.generate returns and the decoded output is raw: parseResponse,
\* then the tool test `result.function && this.tools[result.function]`,
\* which a null or missing function fails
TextIntentOutput(i, raw) ==
    /\ texts[i].pc = "intent"
    /\ LET res == ParseResponse(raw)
           result == [function |-> "null",
                      response |-> IF res.response \in {Undefined, <<>>}
                                   THEN "none" ELSE "model",
                      executed |-> "unset"]
       IN /\ parsed' = [raw |-> raw, result |-> res]
          /\ AfterTextProcess(i, result, "none")
    /\ UNCHANGED <<pipeVars, detVars, vadVars, envVars, obsVars, tools, toolSchemas,
                   hidden,
                   sessionVars, initVars, lastTranscript, sessionError, lastEdge, lastDetected, libVars>>

\* tokenizer or model.generate throws: the outer catch of process
TextIntentFail(i) ==
    /\ texts[i].pc = "intent"
    /\ AfterTextProcess(i, [function |-> "null", response |-> "fallback",
                            executed |-> "unset"], "none")
    /\ UNCHANGED textFrame

\* tool.handler returns, with or without a response of its own
TextToolDone(i, resp) ==
    /\ texts[i].pc = "tool"
    /\ AfterTextProcess(i, [texts[i].result EXCEPT
                               !.executed = "true",
                               !.response = IF resp # "none" THEN resp ELSE @],
                        resp)
    /\ UNCHANGED textFrame

\* tool.handler throws thrown
TextToolFail(i, thrown) ==
    /\ texts[i].pc = "tool"
    /\ AfterTextProcess(i, IF thrown = "error"
                           THEN [texts[i].result EXCEPT
                                    !.executed = "false",
                                    !.response = "apology"]
                           ELSE [function |-> "null", response |-> "fallback",
                                 executed |-> "unset"],
                        "none")
    /\ UNCHANGED textFrame

\* tts.speak returns and processText returns the result, or tts.speak
\* throws and processText rejects
TextTtsEnd(i) ==
    /\ texts[i].pc = "tts"
    /\ texts' = Remove(texts, i)
    /\ UNCHANGED textFrame

----------------------------------------------------------------------------
(* The adapter's calls and the clock *)

\* VoicePipeline.initialize awaited by the adapter, all engines loading
Initialize ==
    /\ ~isInitialized
    /\ inits = <<>>
    /\ wakeWord \in SupportedWakeWords
    /\ isInitialized' = TRUE
    /\ detInitialized' = TRUE
    /\ detHandlers' = 1
    /\ state' = "idle"
    /\ UNCHANGED <<lastStateChange, wakeWord, inits, lastTranscript, parsed, sessionError, lastEdge, lastDetected, libVars>>
    /\ UNCHANGED <<isPaused, cycles, hasErrorListener, detVars, vadVars,
                   envVars, obsVars>>
    /\ UNCHANGED <<callVars, hidden, sessionVars>>

\* the body of VoicePipeline.start(src) after its isInitialized test, with
\* WakeWordDetector.start(src), which throws on a detector that is not
\* initialized; ready tells whether the detector the pipeline holds is
StartBody(src, ready) ==
    /\ SetState("listening")
    /\ IF ready
       THEN /\ isRunning' = TRUE
            /\ audioSource' = src
            /\ listeners' = [listeners EXCEPT ![src] = @ + 1]
       ELSE UNCHANGED <<isRunning, audioSource, listeners>>

\* VoicePipeline.start(src) on an initialized pipeline
Start(src) ==
    /\ isInitialized
    /\ starts < MaxStarts
    /\ starts' = starts + 1
    /\ StartBody(src, detInitialized)
    /\ UNCHANGED <<isInitialized, isPaused, cycles, hasErrorListener,
                   detIsPaused, isRecording, lastWakeWordTime, audioBuffer,
                   recordingBuffer, embeddingBuffer, tasks, vadVars,
                   pos, now, obsVars>>
    /\ UNCHANGED <<callVars, initVars, lastTranscript, parsed, sessionError, lastEdge, lastDetected, libVars, hidden, sessionVars>>

\* an initialize invocation: the load it awaits ("detector": the models of
\* the wake-word detector, "engines": those of the other three engines),
\* whether the detector it created is still the one the pipeline holds,
\* and the source of the start(src) that called it (NoSource when the
\* adapter called initialize itself)
NewInit(src) == [pc |-> "detector", current |-> TRUE, start |-> src]

\* initialize(), or start(src), on a pipeline that is not initialized, up
\* to the await of wakeWordDetector.initialize: a new WakeWordDetector
\* replaces the one the pipeline held
CallInitialize(src) ==
    /\ ~isInitialized
    /\ Len(inits) < MaxInits
    /\ src # NoSource => starts < MaxStarts
    /\ starts' = IF src # NoSource THEN starts + 1 ELSE starts
    /\ inits' = Append([k \in DOMAIN inits |->
                           [inits[k] EXCEPT !.current = FALSE]],
                       NewInit(src))
    /\ detInitialized' = FALSE
    /\ detHandlers' = 0
    /\ isRunning' = FALSE
    /\ detIsPaused' = FALSE
    /\ isRecording' = FALSE
    /\ lastWakeWordTime' = 0
    /\ audioBuffer' = <<>>
    /\ recordingBuffer' = Null
    /\ embeddingBuffer' = <<>>
    /\ audioSource' = NoSource
    /\ isSpeaking' = FALSE
    /\ negativeSamples' = 0
    /\ hidden' = 0
    /\ sessionAudio' = Null
    /\ UNCHANGED <<pipeVars, tasks, listeners, pos, now, obsVars, callVars,
                   wakeWord, lastTranscript, parsed, sessionError, lastEdge, lastDetected, libVars, utterances>>

\* wakeWordDetector.initialize returns to invocation k: the detector's
\* four models are loaded and the pipeline's handlers are registered
DetectorLoaded(k) ==
    /\ inits[k].pc = "detector"
    /\ wakeWord \in SupportedWakeWords
    /\ inits' = [inits EXCEPT ![k].pc = "engines"]
    /\ detInitialized' = (detInitialized \/ inits[k].current)
    /\ detHandlers' = detHandlers + 1
    /\ UNCHANGED <<pipeVars, detVars, vadVars, envVars, obsVars, callVars,
                   hidden, sessionVars, wakeWord, lastTranscript, parsed, sessionError, lastEdge, lastDetected, libVars>>

\* variant: the failure of wakeWordDetector.initialize is swallowed
DetectorLoadFailureSwallowed(k) ==
    /\ inits[k].pc = "detector"
    /\ wakeWord \notin SupportedWakeWords
    /\ inits' = [inits EXCEPT ![k].pc = "engines"]
    /\ UNCHANGED <<pipeVars, detVars, vadVars, envVars, obsVars, callVars,
                   hidden, sessionVars, wakeWord, detInitialized, detHandlers,
                   lastTranscript, parsed, sessionError, lastEdge, lastDetected, libVars>>

\* wakeWordDetector.initialize throws to invocation k (`Unknown wake word`
\* for a name the table lacks; for an inherited name downloadModel is
\* given no URL and fetch rejects): initialize rejects, and so does the
\* start that awaited it
DetectorLoadFails(k) ==
    /\ inits[k].pc = "detector"
    /\ wakeWord \notin SupportedWakeWords
    /\ inits' = Remove(inits, k)
    /\ UNCHANGED <<pipeVars, detVars, vadVars, envVars, obsVars, callVars,
                   hidden, sessionVars, wakeWord, detInitialized, detHandlers,
                   lastTranscript, parsed, sessionError, lastEdge, lastDetected, libVars>>

\* tts.initialize returns to invocation k: isInitialized, the state reset
\* and the 'ready' event; a start(src) that awaited the invocation goes on
EnginesLoaded(k) ==
    /\ inits[k].pc = "engines"
    /\ inits' = Remove(inits, k)
    /\ isInitialized' = TRUE
    /\ IF inits[k].start # NoSource
       THEN StartBody(inits[k].start, detInitialized)
       ELSE /\ state' = "idle"
            /\ UNCHANGED <<lastStateChange, isRunning, audioSource, listeners>>
    /\ UNCHANGED <<isPaused, cycles, hasErrorListener, detIsPaused,
                   isRecording, lastWakeWordTime, audioBuffer,
                   recordingBuffer, embeddingBuffer, tasks, vadVars,
                   pos, now, starts, obsVars>>
    /\ UNCHANGED <<callVars, wakeWord, detInitialized, detHandlers, lastTranscript, parsed, sessionError, lastEdge, lastDetected, libVars, hidden,
                   sessionVars>>

\* the driving assistant starts its pipeline once, on the microphone
StartOnce(src) ==
    /\ starts = 0
    /\ Start(src)

\* VoicePipeline.stop with WakeWordDetector.stop; before initialize the
\* detector does not exist
Stop ==
    /\ SetState("idle")
    /\ IF isInitialized
       THEN /\ isRunning' = FALSE
            /\ listeners' = IF audioSource = NoSource THEN listeners
                            ELSE [listeners EXCEPT ![audioSource] = 0]
       ELSE UNCHANGED <<isRunning, listeners>>
    /\ UNCHANGED <<isInitialized, isPaused, cycles, hasErrorListener,
                   detIsPaused, isRecording, lastWakeWordTime, audioBuffer,
                   recordingBuffer, embeddingBuffer, audioSource, tasks,
                   vadVars, pos, now, starts, obsVars>>
    /\ UNCHANGED <<callVars, initVars, lastTranscript, parsed, sessionError, lastEdge, lastDetected, libVars, hidden, sessionVars>>

\* VoicePipeline.pause called by the adapter; before initialize the
\* detector does not exist
PauseCall ==
    /\ isPaused' = TRUE
    /\ detIsPaused' = (isInitialized \/ detIsPaused)
    /\ UNCHANGED <<state, lastStateChange, isInitialized, cycles,
                   hasErrorListener, isRunning, isRecording, lastWakeWordTime,
                   audioBuffer, recordingBuffer, embeddingBuffer, audioSource,
                   tasks, vadVars, envVars, obsVars>>
    /\ UNCHANGED <<callVars, initVars, lastTranscript, parsed, sessionError, lastEdge, lastDetected, libVars, hidden, sessionVars>>

\* VoicePipeline.resume called by the adapter
ResumeCall ==
    /\ isPaused' = FALSE
    /\ IF isInitialized
       THEN /\ detIsPaused' = FALSE
            /\ isRecording' = FALSE
            /\ recordingBuffer' = Null
            /\ sessionAudio' = Null
       ELSE UNCHANGED <<detIsPaused, isRecording, recordingBuffer,
                        sessionAudio>>
    /\ SetState("listening")
    /\ UNCHANGED <<isInitialized, cycles, hasErrorListener, isRunning,
                   lastWakeWordTime, audioBuffer, embeddingBuffer,
                   audioSource, tasks, vadVars, envVars, obsVars>>
    /\ UNCHANGED <<callVars, initVars, lastTranscript, parsed, sessionError, lastEdge, lastDetected, libVars, hidden, utterances>>

\* Date.now() advances; the clock is read only by the cooldown test, so
\* its advance is followed while a cooldown is running
Tick ==
    /\ now < MaxNow
    /\ ~CooldownElapsed(now, lastWakeWordTime)
    /\ now' = now + TickMs
    /\ UNCHANGED <<pipeVars, detVars, vadVars, listeners, pos, starts, obsVars>>
    /\ UNCHANGED <<callVars, initVars, lastTranscript, parsed, sessionError, lastEdge, lastDetected, libVars, hidden, sessionVars>>


\* a VADProcessor driven alone: vad.process on an engine output carrying
\* probability p
VadStep(p) ==
    /\ Len(vadLog) < MaxScores
    /\ LET r == VADProcess(isSpeaking, negativeSamples, p)
       IN /\ isSpeaking' = r.isSpeaking
          /\ negativeSamples' = r.negativeSamples
          /\ hidden' = Len(vadLog) + 1
          /\ vadLog' = Append(vadLog, [probability |-> p,
                                       isSpeaking |-> r.isSpeaking,
                                       justStarted |-> r.justStarted,
                                       justEnded |-> r.justEnded])
    /\ UNCHANGED <<pipeVars, detVars, envVars, accepted, windows,
                   speechSegment, detections>>
    /\ UNCHANGED <<callVars, initVars, lastTranscript, parsed, sessionError, lastEdge, lastDetected, libVars, sessionVars>>

----------------------------------------------------------------------------
(* createTools of tools/definitions.js *)

\* a || b
Or(a, b) == IF a \in {"undefined", "null"} THEN b ELSE a
\* variant: the handler of TOOLS is preferred to the adapter's
CreateToolsBuiltinFirst(registry, handlers) ==
    [name \in DOMAIN registry |->
        [schema |-> registry[name].schema,
         handler |-> Or(Or(registry[name].handler, handlers[name]),
                        "fallback")]]
\* the object createTools(handlers) returns
CreateToolsResult(registry, handlers) ==
    [name \in DOMAIN registry |->
        [schema |-> registry[name].schema,
         handler |-> Or(Or(handlers[name], registry[name].handler),
                        "fallback")]]

\* one call createTools(handlers)
CreateTools(handlers) ==
    /\ handlersArg' = handlers
    /\ created' = CreateToolsResult(TOOLS, handlers)
    /\ UNCHANGED <<TOOLS, ttsVars>>
    /\ UNCHANGED <<pipeVars, detVars, vadVars, envVars, obsVars, callVars,
                   hidden, sessionVars, initVars, lastTranscript, parsed,
                   sessionError, lastEdge, lastDetected>>

\* an adapter building its tools, any number of times
NextCreate == \E handlers \in HandlerMaps : CreateTools(handlers)

SpecCreate == Init /\ [][NextCreate]_vars

----------------------------------------------------------------------------
(* TextToSpeech.generate with caching enabled (the default)                 *)

\* audioCache.has(key)
CacheHas(cache, key) == \E i \in DOMAIN cache : cache[i].key = key
\* audioCache.get(key)
CacheGet(cache, key) ==
    cache[CHOOSE i \in DOMAIN cache : cache[i].key = key].result
\* audioCache.set(key, result): a key the map holds keeps its place
MapSet(cache, key, result) ==
    IF CacheHas(cache, key)
    THEN [i \in DOMAIN cache |->
            IF cache[i].key = key THEN [key |-> key, result |-> result]
            ELSE cache[i]]
    ELSE Append(cache, [key |-> key, result |-> result])
\* variant: the entry inserted last is the one deleted
CacheInsertEvictsLast(cache, key, result) ==
    LET set == MapSet(cache, key, result)
    IN IF Len(set) > MaxCacheSize THEN SubSeq(set, 1, Len(set) - 1) ELSE set
\* the cache after set and the size test: the first key is deleted
CacheInsert(cache, key, result) ==
    LET set == MapSet(cache, key, result)
    IN IF Len(set) > MaxCacheSize THEN Tail(set) ELSE set

\* generate(text, voiceId) up to its first await on an initialized
\* synthesizer: a cached result is returned, else the invocation suspends
\* at loadVoice and the synthesis engines
Generate(voiceId, text) ==
    LET key == CacheKey(voiceId, text)
    IN /\ IF CacheHas(audioCache, key)
          THEN /\ lastGen' = [key |-> key,
                               result |-> CacheGet(audioCache, key),
                               hit |-> TRUE]
               /\ UNCHANGED gens
          ELSE /\ Len(gens) < MaxGens
               /\ synthCount + Len(gens) < MaxSynth
               /\ gens' = Append(gens, key)
               /\ UNCHANGED lastGen
       /\ UNCHANGED <<audioCache, synthCount>>
       /\ UNCHANGED <<pipeVars, detVars, vadVars, envVars, obsVars, callVars,
                      hidden, sessionVars, initVars, lastTranscript, parsed,
                      sessionError, lastEdge, lastDetected, TOOLS,
                      handlersArg, created>>

\* the synthesis engines return to invocation g: the result is cached and
\* returned
SynthDone(g) ==
    LET result == synthCount + 1
    IN /\ synthCount' = result
       /\ audioCache' = CacheInsert(audioCache, gens[g], result)
       /\ gens' = Remove(gens, g)
       /\ lastGen' = [key |-> gens[g], result |-> result, hit |-> FALSE]
       /\ UNCHANGED <<pipeVars, detVars, vadVars, envVars, obsVars, callVars,
                      hidden, sessionVars, initVars, lastTranscript, parsed,
                      sessionError, lastEdge, lastDetected, TOOLS,
                      handlersArg, created>>

\* loadVoice or a synthesis engine throws to invocation g: generate
\* rejects and caches nothing
SynthFail(g) ==
    /\ gens' = Remove(gens, g)
    /\ UNCHANGED <<audioCache, synthCount, lastGen>>
    /\ UNCHANGED <<pipeVars, detVars, vadVars, envVars, obsVars, callVars,
                   hidden, sessionVars, initVars, lastTranscript, parsed,
                   sessionError, lastEdge, lastDetected, TOOLS,
                   handlersArg, created>>

\* generate called for any voice and text while earlier calls are at the
\* engines
NextCache ==
    \/ \E voiceId \in Voices, text \in Texts : Generate(voiceId, text)
    \/ \E g \in DOMAIN gens : SynthDone(g)
    \/ \E g \in DOMAIN gens : SynthFail(g)

SpecCache == Init /\ [][NextCache]_vars

----------------------------------------------------------------------------
(* Specifications *)

\* the detection chain: engine calls of the suspended invocations
Detector ==
    \/ \E t \in DOMAIN tasks, p \in VadScores : VadDone(t, p)
    \/ \E t \in DOMAIN tasks : SpectrogramDone(t)
    \/ \E t \in DOMAIN tasks : EmbeddingDone(t)
    \/ \E t \in DOMAIN tasks, p \in WakeProbs : WakeWordDone(t, p)
    \/ \E t \in DOMAIN tasks : EngineFail(t)

\* the command cycle: engine calls of the suspended onSpeechEnd invocations
Command ==
    \/ \E c \in DOMAIN cycles, tr \in Transcripts : SttDone(c, tr)
    \/ \E c \in DOMAIN cycles : SttFail(c)
    \/ \E c \in DOMAIN cycles, fn \in IntentFunctions, r \in ModelResponses :
          IntentDone(c, fn, r)
    \/ \E c \in DOMAIN cycles : IntentFail(c)
    \/ \E c \in DOMAIN cycles, r \in ToolResponses : ToolDone(c, r)
    \/ \E c \in DOMAIN cycles, th \in ToolThrows : ToolFail(c, th)
    \/ \E c \in DOMAIN cycles : TtsDone(c)
    \/ \E c \in DOMAIN cycles : TtsFail(c)

\* a pipeline started once on its microphone and stopped at any time
Next ==
    \/ Initialize
    \/ StartOnce("A")
    \/ Stop
    \/ \E n \in ChunkSizes : DataEvent("A", n, MaxPos)
    \/ Detector
    \/ Command
    \/ Tick

Spec == Init /\ [][Next]_vars

\* a pipeline started once and never stopped, on a longer stream
NextLong ==
    \/ Initialize
    \/ StartOnce("A")
    \/ \E n \in ChunkSizes : DataEvent("A", n, LongPos)
    \/ Detector
    \/ Command
    \/ Tick

SpecLong == Init /\ [][NextLong]_vars

\* the same, every engine call of a command cycle returning or throwing in
\* the end
SpecLongFair == SpecLong /\ WF_vars(Command)

\* the adapter calling stop, start again, pause and resume at any moment
\* while audio arrives and the engine calls of the windows return or
\* throw; no window qualifies as the wake word
ApiPos == ShortPos + BatchInterval
\* the source delivers a window or a hop at a time
ApiChunks == {BatchInterval, BatchSamples}

NextApi ==
    \/ Initialize
    \/ ~isRunning /\ Start("A")
    \/ Stop
    \/ PauseCall
    \/ ResumeCall
    \/ \E n \in ApiChunks : DataEvent("A", n, ApiPos)
    \/ \E t \in DOMAIN tasks, p \in VadScores : VadDone(t, p)
    \/ \E t \in DOMAIN tasks : SpectrogramDone(t)
    \/ \E t \in DOMAIN tasks : EmbeddingDone(t)
    \/ \E t \in DOMAIN tasks : WakeWordDone(t, Threshold - 1)
    \/ \E t \in DOMAIN tasks : EngineFail(t)

SpecApi == Init /\ [][NextApi]_vars

\* a pipeline started on one audio source per speaker, as the Discord bot
\* does, and stopped at any time, on a short stream whose engine calls are
\* still outstanding
NextLifecycle ==
    \/ Initialize
    \/ \E src \in Sources : Start(src)
    \/ Stop
    \/ \E src \in Sources, n \in ChunkSizes : DataEvent(src, n, ShortPos)

SpecLifecycle == Init /\ [][NextLifecycle]_vars

\* a pipeline whose adapter calls initialize and start without awaiting
\* them
NextInit ==
    \/ \E src \in Sources \cup {NoSource} : CallInitialize(src)
    \/ \E k \in DOMAIN inits : DetectorLoaded(k)
    \/ \E k \in DOMAIN inits : DetectorLoadFails(k)
    \/ \E k \in DOMAIN inits : EnginesLoaded(k)
    \/ \E src \in Sources : Start(src)
    \/ Stop

SpecInit == Init /\ [][NextInit]_vars

\* registerTool(name, schema, handler): the pipeline's tool map and the
\* function caller's are one object, and the entry is written at once;
\* FunctionCaller.registerTool, which also writes toolSchemas, is called
\* when the function caller exists
RegisterTool(name) ==
    /\ name \in IntentFunctions \ {"null"}
    /\ name \notin tools
    /\ tools' = tools \cup {name}
    /\ toolSchemas' = IF isInitialized THEN toolSchemas \cup {name}
                      ELSE toolSchemas
    /\ UNCHANGED <<pipeVars, detVars, vadVars, envVars, obsVars, texts,
                   hidden, sessionVars, initVars, lastTranscript, parsed, sessionError, lastEdge, lastDetected, libVars>>

\* the end-to-end scenario: the window that starts k hops into the stream
\* is silence for k = 0, speech for the next EmbeddingFrames + 1 windows
\* (the first EmbeddingFrames fill the embedding buffer), silence after
\* that; every wake-word evaluation qualifies, every engine call resolves
SpeechWindows == 1..(EmbeddingFrames + 1)
ScenarioScore(k) == IF k \in SpeechWindows THEN 90 ELSE 10

NextScenario ==
    \/ Initialize
    \/ StartOnce("A")
    \/ \E n \in ChunkSizes : DataEvent("A", n, ScenarioPos)
    \/ \E t \in DOMAIN tasks :
          VadDone(t, ScenarioScore(WindowIndex(tasks[t].audio)))
    \/ \E t \in DOMAIN tasks : SpectrogramDone(t)
    \/ \E t \in DOMAIN tasks : EmbeddingDone(t)
    \/ \E t \in DOMAIN tasks : WakeWordDone(t, Threshold)
    \/ \E c \in DOMAIN cycles, tr \in Transcripts : SttDone(c, tr)
    \/ \E c \in DOMAIN cycles, fn \in IntentFunctions, r \in ModelResponses :
          IntentDone(c, fn, r)
    \/ \E c \in DOMAIN cycles, r \in ToolResponses : ToolDone(c, r)
    \/ \E c \in DOMAIN cycles : TtsDone(c)
    \/ Tick

SpecScenario == Init /\ [][NextScenario]_vars

\* a speaker who says the wake word and goes on talking: the source
\* delivers one second of audio per chunk, every window is speech, every
\* wake-word evaluation qualifies, every engine call resolves before the
\* next chunk arrives
RecordingPos == RecordingSeconds * SampleRate

NextRecording ==
    \/ Initialize
    \/ StartOnce("A")
    \/ tasks = <<>> /\ DataEvent("A", SampleRate, RecordingPos)
    \/ \E t \in DOMAIN tasks : VadDone(t, 90)
    \/ \E t \in DOMAIN tasks : SpectrogramDone(t)
    \/ \E t \in DOMAIN tasks : EmbeddingDone(t)
    \/ \E t \in DOMAIN tasks : WakeWordDone(t, Threshold)

SpecRecording == Init /\ [][NextRecording]_vars

\* the scenario with the adapter registering tools at any moment
NextTools ==
    \/ NextScenario
    \/ \E name \in IntentFunctions : RegisterTool(name)

SpecTools == Init /\ [][NextTools]_vars

\* text commands: FunctionCaller.process of the suspended processText
\* invocations
Text ==
    \/ \E i \in DOMAIN texts, fn \in IntentFunctions, r \in ModelResponses :
          TextIntentDone(i, fn, r)
    \/ \E i \in DOMAIN texts : TextIntentFail(i)
    \/ \E i \in DOMAIN texts, r \in ToolResponses : TextToolDone(i, r)
    \/ \E i \in DOMAIN texts, th \in ToolThrows : TextToolFail(i, th)
    \/ \E i \in DOMAIN texts : TextTtsEnd(i)

\* a pipeline given text commands, before and after it is started
NextText ==
    \/ Initialize
    \/ StartOnce("A")
    \/ Stop
    \/ ProcessText
    \/ Text

SpecText == Init /\ [][NextText]_vars

\* text commands given one at a time to a pipeline whose intent model
\* returns any output
NextParse ==
    \/ Initialize
    \/ texts = <<>> /\ ProcessText
    \/ \E i \in DOMAIN texts, raw \in RawOutputs : TextIntentOutput(i, raw)
    \/ \E i \in DOMAIN texts : TextTtsEnd(i)

SpecParse == Init /\ [][NextParse]_vars

\* a VADProcessor driven alone with every sequence of scores
NextVAD == \E p \in EdgeScores : VadStep(p)

SpecVAD == Init /\ [][NextVAD]_vars

----------------------------------------------------------------------------
(* Properties *)

\* C1: at most one command cycle is in flight: while an onSpeechEnd
\* invocation is between its guard and its resume(), no `detected` event
\* turns the pipeline state to recording and no second onSpeechEnd passes
\* the guard
C1_OneCommandInFlight ==
    /\ Len(cycles) <= 1
    /\ cycles # <<>> => state # "recording"

\* C2: when stt.transcribe or tts.speak throws during a command cycle,
\* onSpeechEnd ends with the pipeline listening and the pipeline and the
\* detector unpaused, with or without a listener for 'error'
C2_FailureReturnsToListening ==
    [][(\E c \in DOMAIN cycles : SttFail(c) \/ TtsFail(c))
          => (state' = "listening" /\ ~isPaused' /\ ~detIsPaused')]_vars

\* C3: after stop() no recording session is open: isRecording is false and
\* recordingBuffer is null
C3_StopClosesRecording ==
    [][Stop => (~isRecording' /\ recordingBuffer' = Null)]_vars

\* C4: after stop() no 'data' listener remains on any audio source that
\* was passed to start()
C4_StopRemovesAllListeners ==
    [][Stop => (\A s \in Sources : listeners'[s] = 0)]_vars

\* C5: the embedding buffer never holds embeddings of two speech segments
C5_EmbeddingsOfOneSegment ==
    \A i, j \in DOMAIN embeddingBuffer :
        embeddingBuffer[i].seg = embeddingBuffer[j].seg

\* C6: every window handed to processBatch has exactly batchSamples
\* samples, the k-th window (from 0) starts k * batchInterval samples into
\* the concatenation of the chunks the detector took, no window is handed
\* out twice, and what is left in audioBuffer is the rest of the stream, so
\* that the windows are a function of the concatenated samples alone
C6_FrameBatcherWindows ==
    /\ \A k \in DOMAIN windows :
          /\ RLen(windows[k]) = BatchSamples
          /\ windows[k] =
                SliceTo(SliceFrom(accepted, (k - 1) * BatchInterval),
                        BatchSamples)
    /\ \A j, k \in DOMAIN windows : j # k => windows[j] # windows[k]
    /\ audioBuffer = SliceFrom(accepted, Len(windows) * BatchInterval)
    /\ tasks = <<>> => RLen(audioBuffer) < BatchSamples

\* three windows were cut from a stream whose chunks do not line up with
\* the hop, and the loop has run dry
C6_Witness ==
    /\ Len(windows) >= 3
    /\ tasks = <<>>
    /\ (RLen(accepted) - BatchSamples) % BatchInterval # 0

\* isSpeaking before the i-th call of process
PrevSpeaking(i) == IF i = 1 THEN FALSE ELSE vadLog[i - 1].isSpeaking
InDeadZone(p) == p >= NegativeThreshold /\ p < PositiveThreshold

\* C7: from not speaking, isSpeaking turns true exactly on a window whose
\* score is >= positiveThreshold, justStarted is returned on that window
\* and on no other, and isSpeaking stays true on windows in the dead zone
C7_VadStartEdge ==
    \A i \in DOMAIN vadLog :
        LET e == vadLog[i] IN
        /\ ~PrevSpeaking(i) =>
              (e.isSpeaking <=> e.probability >= PositiveThreshold)
        /\ e.justStarted <=>
              (~PrevSpeaking(i) /\ e.probability >= PositiveThreshold)
        /\ (PrevSpeaking(i) /\ InDeadZone(e.probability)) => e.isSpeaking

\* speech started on a score equal to positiveThreshold and went on through
\* a window in the dead zone
C7_Witness ==
    \E i \in DOMAIN vadLog :
        /\ i > 1
        /\ vadLog[i - 1].justStarted
        /\ vadLog[i - 1].probability = PositiveThreshold
        /\ InDeadZone(vadLog[i].probability)
        /\ vadLog[i].isSpeaking

\* isSpeaking turned from true to false on the i-th call of process
SpeechEnded(i) == PrevSpeaking(i) /\ ~vadLog[i].isSpeaking

\* C8 as stated: speech ends only on the last of negativeCount consecutive
\* windows below negativeThreshold, and justEnded is returned on exactly
\* that window
C8_EndAfterConsecutiveNegatives ==
    \A i \in DOMAIN vadLog :
        /\ vadLog[i].justEnded <=> SpeechEnded(i)
        /\ SpeechEnded(i) =>
              /\ i >= NegativeCount
              /\ \A j \in (i - NegativeCount + 1)..i :
                    vadLog[j].probability < NegativeThreshold

\* the last call up to the i-th whose score was >= positiveThreshold
LastPositive(i) ==
    LET at == {j \in 1..i : vadLog[j].probability >= PositiveThreshold}
    IN IF at = {} THEN 0 ELSE CHOOSE j \in at : \A k \in at : k <= j

\* the windows below negativeThreshold since the last one at or above
\* positiveThreshold, up to the i-th
NegativesSince(i) ==
    {j \in (LastPositive(i) + 1)..i :
        vadLog[j].probability < NegativeThreshold}

\* C8 amended: speech ends exactly on the negativeCount-th window below
\* negativeThreshold since the last window at or above positiveThreshold,
\* windows in the dead zone in between neither counting nor restarting the
\* count, and justEnded is returned on exactly that window
C8_EndAfterNegativesSincePositive ==
    \A i \in DOMAIN vadLog :
        /\ vadLog[i].justEnded <=> SpeechEnded(i)
        /\ SpeechEnded(i) <=>
              /\ PrevSpeaking(i)
              /\ vadLog[i].probability < NegativeThreshold
              /\ Cardinality(NegativesSince(i)) = NegativeCount

\* speech ended although a window in the dead zone lay among the windows
\* that were counted
C8_Witness ==
    \E i \in DOMAIN vadLog :
        /\ vadLog[i].justEnded
        /\ \E j \in (LastPositive(i) + 1)..i : InDeadZone(vadLog[j].probability)

\* C9: two `detected` events are at least cooldownMs apart, and a window
\* whose probability is >= threshold emits no `detected` only when one was
\* emitted less than cooldownMs before it
C9_CooldownDebounce ==
    \A j \in DOMAIN detections :
        /\ \A i \in 1..(j - 1) :
              (detections[i].fired /\ detections[j].fired)
                 => detections[j].time - detections[i].time >= CooldownMs
        /\ ~detections[j].fired =>
              \E i \in 1..(j - 1) :
                 /\ detections[i].fired
                 /\ detections[j].time - detections[i].time < CooldownMs

\* a detection, a qualifying window suppressed within the cooldown, and a
\* second detection once the cooldown has passed
C9_Witness ==
    \E i, j, k \in DOMAIN detections :
        /\ i < j /\ j < k
        /\ detections[i].fired
        /\ ~detections[j].fired
        /\ detections[k].fired

\* C10: when a tool handler throws, process returns a result with
\* executed = false and the apology as response, and the cycle that spoke
\* it ends with the pipeline listening
C10_ToolFailureContained ==
    [][/\ \A c \in DOMAIN cycles, th \in ToolThrows :
             ToolFail(c, th) =>
                /\ cycles'[c].result.executed = "false"
                /\ cycles'[c].result.response = "apology"
       /\ \A c \in DOMAIN cycles :
             (cycles[c].toolThrew # "no" /\ (TtsDone(c) \/ TtsFail(c)))
                => state' = "listening"]_vars

\* C11: processText whose intent resolves to a registered tool returning
\* {response: R} passes R to tts.speak, and ends with the pipeline state
\* listening
C11_ProcessTextSpeaksToolResponse ==
    [][/\ \A i \in DOMAIN texts :
             TextToolDone(i, "tool") =>
                /\ texts'[i].pc = "tts"
                /\ texts'[i].result.response = "tool"
       /\ \A i \in DOMAIN texts :
             (texts[i].toolResponse = "tool" /\ TextTtsEnd(i))
                => state' = "listening"]_vars

\* the whole scenario stream was delivered and every call has returned
ScenarioOver ==
    /\ pos = ScenarioPos
    /\ tasks = <<>>
    /\ cycles = <<>>

\* the end of the window on which the scenario's speech-end edge falls
EndEdge == (EmbeddingFrames + 1 + NegativeCount) * BatchInterval + BatchSamples

\* C12: at the end of the scenario exactly one `detected` was emitted,
\* exactly one utterance was handed to transcription, spanning from the
\* start of the detecting window to the speech-end edge, and the pipeline
\* is listening
C12_ScenarioOneCommand ==
    ScenarioOver =>
        /\ Cardinality({i \in DOMAIN detections : detections[i].fired}) = 1
        /\ Len(utterances) = 1
        /\ utterances[1] = << <<EmbeddingFrames * BatchInterval, EndEdge>> >>
        /\ state = "listening"

\* C13: windows are processed one at a time: no processBatch begins while
\* another is suspended at an engine call
C13_OneWindowAtATime == Len(tasks) <= 1

\* C14: the recurrent state of the voice-activity engine is threaded
\* sequentially: no two engine calls are fed the same recurrent state
C14_HiddenStateThreaded ==
    \A i, j \in DOMAIN tasks :
        (i # j /\ tasks[i].pc = "vad" /\ tasks[j].pc = "vad")
           => tasks[i].h # tasks[j].h

\* C15: the utterance emitted at the speech-end edge of an open session is
\* the window of the detection that opened the session followed by every
\* chunk the detector took since, in arrival order
C15_UtteranceIsSessionAudio ==
    [][(isRecording /\ isSpeaking /\ ~isSpeaking')
          => recordingBuffer = sessionAudio]_vars

\* C16: a qualifying detection while a session is open opens no second
\* session and leaves the buffer of the open session unchanged
C16_OpenWhileOpenIsNoOp ==
    [][(isRecording /\ \E t \in DOMAIN tasks : WakeWordDone(t, Threshold))
          => recordingBuffer' = recordingBuffer]_vars

\* C17: while the detector is paused no window is fed through the
\* detection chain: no window is cut and given to the voice-activity
\* engine, no embedding is appended, and neither `detected` nor `speechEnd`
\* is emitted
C17_PausedDetectorIsIdle ==
    [][(detIsPaused /\ detIsPaused') =>
          /\ windows' = windows
          /\ embeddingBuffer' = embeddingBuffer
          /\ lastWakeWordTime' = lastWakeWordTime
          /\ ~(isSpeaking /\ ~isSpeaking')]_vars

\* the edges of the transition table, other than those into idle
TableEdges ==
    {<<"idle", "listening">>, <<"listening", "recording">>,
     <<"recording", "transcribing">>, <<"transcribing", "listening">>,
     <<"transcribing", "processing">>, <<"processing", "speaking">>,
     <<"processing", "listening">>, <<"speaking", "listening">>}

\* C18: the pipeline state changes only along the edges of the transition
\* table: into idle by stop(), from idle to listening by start(), and
\* otherwise along the edges of the command cycle
C18_StateFollowsTable ==
    [][state' # state =>
          /\ state' = "idle" => Stop
          /\ state' # "idle" => <<state, state'>> \in TableEdges
          /\ state = "idle" => \E src \in Sources : Start(src)]_vars

\* C19: after stop() the pipeline state is idle and stays idle until
\* start() is called again
C19_StoppedStaysIdle == ~isRunning => state = "idle"

\* C20: a tool registered while a command is in flight is not seen by that
\* command: the tool a command dispatches to is one of the tool map as it
\* was when the command started
C20_ToolMapFixedAtCommandStart ==
    \A c \in DOMAIN cycles :
       cycles[c].pc = "tool" => cycles[c].result.function \in cycles[c].toolsAtStart

\* a transcript with no character other than white space
WhitespaceOnly(tr) == {tr[i] : i \in DOMAIN tr} \subseteq {" "}

\* C21: when stt.transcribe returns an empty or whitespace-only transcript,
\* the command cycle ends there, before the intent engine and the speech
\* synthesizer are called, with the pipeline listening and the pipeline
\* and the detector unpaused
C21_EmptyTranscriptSkipsCommand ==
    [][\A c \in DOMAIN cycles, tr \in Transcripts :
          (WhitespaceOnly(tr) /\ SttDone(c, tr)) =>
             /\ cycles' = Remove(cycles, c)
             /\ state' = "listening"
             /\ ~isPaused' /\ ~detIsPaused']_vars

\* a whitespace-only transcript was the last one emitted, and the cycle it
\* belonged to is over
C21_Witness ==
    /\ lastTranscript # <<>>
    /\ lastTranscript # NoTranscript
    /\ WhitespaceOnly(lastTranscript)
    /\ utterances # <<>>
    /\ cycles = <<>>
    /\ state = "listening"

\* the engine call onSpeechEnd invocation c awaits changes to call
Enters(c, call) ==
    /\ Len(cycles') = Len(cycles)
    /\ cycles[c].pc # call
    /\ cycles'[c].pc = call

\* C22: in every command cycle the tool handler is called only when the
\* intent inference has returned, tts.speak is called only when the tool
\* handler has returned or thrown (or none was dispatched), the pipeline
\* enters speaking only with a result that carries a response, and a cycle
\* whose result carries none ends in listening
C22_CommandCallOrder ==
    [][/\ \A c \in DOMAIN cycles :
             /\ Enters(c, "tool") => cycles[c].pc = "intent"
             /\ Enters(c, "tts") =>
                   /\ cycles[c].pc \in {"intent", "tool"}
                   /\ cycles[c].pc = "intent" =>
                         cycles'[c].result.function \notin tools
                   /\ cycles'[c].result.response # "none"
                   /\ state' = "speaking"
             /\ (cycles[c].pc \in {"intent", "tool"} /\ cycles' = Remove(cycles, c))
                   => state' = "listening"
       /\ (state' = "speaking" /\ state # "speaking") =>
             \E c \in DOMAIN cycles' :
                 cycles'[c].pc = "tts" /\ cycles'[c].result.response # "none"]_vars

\* a tool ran after the intent inference and its response is being spoken
C22_Witness ==
    \E c \in DOMAIN cycles :
        /\ cycles[c].pc = "tts"
        /\ cycles[c].result.executed = "true"
        /\ cycles[c].result.response = "tool"
        /\ state = "speaking"

\* C23: every command cycle terminates: when every engine call of the
\* cycle returns or throws, an onSpeechEnd invocation that passed its guard
\* leads to the pipeline listening, the pipeline and the detector unpaused
C23_CycleTerminates ==
    (cycles # <<>>) ~> (state = "listening" /\ ~isPaused /\ ~detIsPaused)

\* C24: a window whose score lies in the dead zone changes neither
\* isSpeaking nor the count of negative windows, and process returns
\* justStarted = false and justEnded = false for it
C24_DeadZoneChangesNothing ==
    [][\A p \in EdgeScores :
          (InDeadZone(p) /\ VadStep(p)) =>
             /\ isSpeaking' = isSpeaking
             /\ negativeSamples' = negativeSamples
             /\ ~vadLog'[Len(vadLog')].justStarted
             /\ ~vadLog'[Len(vadLog')].justEnded]_vars

\* the last score lay in the dead zone, during speech, with negative
\* windows already counted
C24_Witness ==
    /\ vadLog # <<>>
    /\ InDeadZone(vadLog[Len(vadLog)].probability)
    /\ isSpeaking
    /\ negativeSamples > 0

\* the engine call processAudioChunk invocation t awaits changes to call
TaskEnters(t, call) ==
    /\ Len(tasks') = Len(tasks)
    /\ tasks[t].pc # call
    /\ tasks'[t].pc = call

\* C25: the detection chain goes on past VAD only for a window on which
\* VAD reports isSpeaking, the classifier is called only with exactly
\* embeddingFrames embeddings in the buffer, the buffer never holds more,
\* a new embedding is appended at the end and at capacity the oldest one
\* is removed, so that the buffer is in arrival order
C25_ClassifierInput ==
    [][/\ Len(embeddingBuffer') <= EmbeddingFrames
       /\ \A i \in 1..(Len(embeddingBuffer') - 1) :
             embeddingBuffer'[i].n < embeddingBuffer'[i + 1].n
       /\ \A t \in DOMAIN tasks :
             /\ TaskEnters(t, "spectrogram") =>
                   (tasks[t].pc = "vad" /\ isSpeaking')
             /\ TaskEnters(t, "embedding") => tasks[t].pc = "spectrogram"
             /\ TaskEnters(t, "wakeword") =>
                   /\ tasks[t].pc = "embedding"
                   /\ Len(embeddingBuffer') = EmbeddingFrames
             /\ EmbeddingDone(t) =>
                   embeddingBuffer' =
                      Append(IF Len(embeddingBuffer) = EmbeddingFrames
                             THEN Tail(embeddingBuffer) ELSE embeddingBuffer,
                             Embedding(embeddingBuffer, tasks[t]))]_vars

\* the classifier is called with a full buffer from which the first
\* embedding has been removed
C25_Witness ==
    /\ \E t \in DOMAIN tasks : tasks[t].pc = "wakeword"
    /\ Len(embeddingBuffer) = EmbeddingFrames
    /\ embeddingBuffer[1].n > 1

\* C26: a speech-end edge of VAD while no recording session is open starts
\* no command cycle: no utterance is handed on, no engine of the command
\* cycle is called, and the pipeline state and the pause flags stay as
\* they are
C26_SpeechEndWithoutSession ==
    [][(\E t \in DOMAIN tasks, p \in VadScores :
           VadDone(t, p) /\ ~isRecording /\ isSpeaking /\ ~isSpeaking')
          => UNCHANGED <<state, lastStateChange, isPaused, detIsPaused, cycles,
                         utterances>>]_vars

\* speech has started and ended without any detection, and the pipeline
\* is listening
C26_Witness ==
    /\ speechSegment >= 1
    /\ ~isSpeaking
    /\ \A i \in DOMAIN detections : ~detections[i].fired
    /\ ~isRecording
    /\ state = "listening"
    /\ cycles = <<>>

\* C27: every change of the pipeline state is followed by a 'stateChange'
\* event carrying the new value, so that a listener that keeps the payload
\* of the last 'stateChange' agrees with getState().state
C27_StateChangeObservable == lastStateChange = state

\* a parseable JSON object lies somewhere in the text
HasJsonObject(str) ==
    \E i, j \in DOMAIN str : i < j /\ IsJsonObject(SubSeq(str, i, j))

\* C28: when the output of the intent model holds no parseable JSON
\* object, parseResponse returns function null, empty parameters and the
\* trimmed output as response, no tool handler is called, and the command
\* goes on to tts.speak when that response is not empty and ends otherwise
C28_UnparseableOutputIsPlainText ==
    [][\A i \in DOMAIN texts :
          LET raw == parsed'.raw IN
          (/\ texts[i].pc = "intent"
           /\ raw \in RawOutputs
           /\ ~HasJsonObject(raw)
           /\ TextIntentOutput(i, raw)) =>
             /\ parsed'.result.function = "null"
             /\ parsed'.result.parameters = "{}"
             /\ parsed'.result.response = Trim(raw)
             /\ IF Trim(raw) # <<>>
                THEN /\ Len(texts') = Len(texts)
                     /\ texts'[i].pc = "tts"
                     /\ texts'[i].result.executed = "unset"
                ELSE texts' = Remove(texts, i)]_vars

\* an output with braces around something that is no JSON was parsed
\* and its text is being spoken
C28_Witness ==
    /\ parsed.raw # Undefined
    /\ JsonMatch(parsed.raw) # <<>>
    /\ ~HasJsonObject(parsed.raw)
    /\ parsed.result.response = Trim(parsed.raw)
    /\ \E i \in DOMAIN texts : texts[i].pc = "tts"

C30_EngineFailureContained ==
    [][\A t \in DOMAIN tasks :
          EngineFail(t) =>
             /\ UNCHANGED <<state, lastStateChange, isPaused, detIsPaused,
                            cycles>>
             /\ UNCHANGED <<isRecording, recordingBuffer, sessionAudio,
                            utterances>>
             /\ UNCHANGED <<isRunning, listeners>>
             /\ IF HasWindow(audioBuffer)
                THEN /\ Len(tasks') = Len(tasks)
                     /\ tasks'[t].pc = "vad"
                     /\ tasks'[t].audio = Batch(audioBuffer)
                     /\ windows' = Append(windows, Batch(audioBuffer))
                ELSE /\ tasks' = Remove(tasks, t)
                     /\ windows' = windows]_vars

\* an engine call failed while a recording session was open: the session
\* is still open in state recording and the next window is at its VAD call
C30_Witness ==
    /\ sessionError
    /\ state = "recording"
    /\ isRecording
    /\ recordingBuffer # Null
    /\ \E t \in DOMAIN tasks : tasks[t].pc = "vad"

\* maxRecordingMs of audio, in samples
MaxRecordingSamples == (MaxRecordingMs * SampleRate) \div 1000

\* C31: the recording buffer of an open session never holds more than
\* maxRecordingMs of audio
C31_RecordingBounded ==
    recordingBuffer # Null => RLen(recordingBuffer) <= MaxRecordingSamples

\* C32: what createTools(handlers) returns has one entry per tool of TOOLS
\* and no other, each with the schema of the tool and, as handler, the
\* adapter's handler for that name, else the handler TOOLS gives the tool,
\* else the fallback; TOOLS is as it was defined
C32_CreateTools ==
    created # NoTools =>
        /\ DOMAIN created = ToolNames
        /\ \A name \in ToolNames :
              /\ created[name].schema = DefinedTools[name].schema
              /\ created[name].handler =
                    IF handlersArg[name] = "adapter" THEN "adapter"
                    ELSE IF DefinedTools[name].handler = "builtin"
                    THEN "builtin"
                    ELSE "fallback"
        /\ TOOLS = DefinedTools

\* the adapter passed a handler for get_time, none for play_youtube and
\* one for a name that is no tool
C32_Witness ==
    /\ created # NoTools
    /\ handlersArg["get_time"] = "adapter"
    /\ handlersArg["play_youtube"] = "null"
    /\ handlersArg["media_control"] = "undefined"
    /\ handlersArg["open_door"] = "adapter"
    /\ created["get_time"].handler = "adapter"
    /\ created["play_youtube"].handler = "fallback"

\* C33: while the pipeline state is listening the detector is running and
\* not paused
C33_ListeningMeansConsuming ==
    state = "listening" => (isRunning /\ ~detIsPaused)

\* C34: every window is one run of samples that were contiguous in the
\* source stream
C34_WindowsContiguous == \A k \in DOMAIN windows : Len(windows[k]) = 1

\* C35: the detector emits `speechStart` only as its first edge event or
\* after a `speechEnd`, and `speechEnd` only after a `speechStart`
C35_EdgesAlternate ==
    [][\A t \in DOMAIN tasks, p \in VadScores :
          (tasks[t].pc = "vad" /\ VadDone(t, p)) =>
             LET r == VADProcess(isSpeaking, negativeSamples, p)
             IN /\ r.justStarted => lastEdge \in {"none", "speechEnd"}
                /\ r.justEnded => lastEdge = "speechStart"
                /\ (lastEdge' = "speechStart") <=> isSpeaking']_vars

\* a speech that began before a stop() ended after the start() that
\* followed it
C35_Witness ==
    /\ lastEdge = "speechEnd"
    /\ starts = 2
    /\ isRunning
    /\ ~isSpeaking

\* C39: while the detector exists the pipeline's pause flag equals the
\* detector's
C39_PauseFlagsAgree == isInitialized => (isPaused = detIsPaused)

\* C36: the audio onSpeechEnd hands to the speech-to-text engine when it
\* passes its guard is a buffer of at least one window that begins with
\* the window of the last `detected` event
C36_UtteranceBeginsWithDetection ==
    [][Len(utterances') > Len(utterances) =>
          LET u == utterances'[Len(utterances')]
          IN /\ u # Null
             /\ RLen(u) >= BatchSamples
             /\ SliceTo(u, BatchSamples) = lastDetected
             /\ cycles'[Len(cycles')].audio = u]_vars

\* an utterance was handed on in a session in which the wake word fired
\* twice
C36_Witness ==
    /\ utterances # <<>>
    /\ \E i, j \in DOMAIN detections :
          i < j /\ detections[i].fired /\ detections[j].fired
    /\ Len(utterances) = 1
    /\ cycles # <<>>
    /\ SliceTo(utterances[1], BatchSamples) = lastDetected

\* C37: the pipeline's handlers of `detected` and `speechEnd` are on the
\* detector it holds at most once, and exactly once when the pipeline is
\* initialized
C37_HandlersRegisteredOnce ==
    /\ detHandlers <= 1
    /\ isInitialized => detHandlers = 1

\* C38: once the function caller exists, every name of its tool map is a
\* key of toolSchemas
C38_SchemasCoverTools == isInitialized => tools \subseteq toolSchemas

\* the keys of the cache, in insertion order
CacheKeys(cache) == [i \in DOMAIN cache |-> cache[i].key]

\* C40: the cache holds at most maxCacheSize entries, no key twice; a
\* result cached under a new key when the cache is full takes the place of
\* the entry inserted earliest; a call for a key the cache holds returns
\* the cached result, starts no synthesis and leaves the cache as it is
C40_CacheBoundedFifo ==
    [][/\ Len(audioCache') <= MaxCacheSize
       /\ \A i, j \in DOMAIN audioCache' :
             audioCache'[i].key = audioCache'[j].key => i = j
       /\ \A g \in DOMAIN gens :
             (SynthDone(g) /\ ~CacheHas(audioCache, gens[g])
                /\ Len(audioCache) = MaxCacheSize)
             => CacheKeys(audioCache')
                   = Append(Tail(CacheKeys(audioCache)), gens[g])
       /\ \A voiceId \in Voices, text \in Texts :
             (CacheHas(audioCache, CacheKey(voiceId, text))
                /\ Generate(voiceId, text))
             => /\ lastGen'.hit
                /\ lastGen'.result
                      = CacheGet(audioCache, CacheKey(voiceId, text))
                /\ UNCHANGED <<audioCache, gens, synthCount>>]_vars

\* the cache is full after an eviction, and the last call returned a
\* cached result
C40_Witness ==
    /\ Len(audioCache) = MaxCacheSize
    /\ synthCount > MaxCacheSize
    /\ \A i \in DOMAIN audioCache : audioCache[i].result > 1
    /\ lastGen.hit
    /\ CacheHas(audioCache, lastGen.key)
====
